---------------------------- MODULE Spec2Model ----------------------------
(***************************************************************************)
(* Model of the streaming chat front-end of kodah.                         *)
(*                                                                         *)
(* The repository holds two near-duplicate front-ends:                     *)
(*   - the "typed" one (src/unnamed/part_000), whose sendMessage consumes  *)
(*     frames  data: {"type":"chain"|"final","content":...}                *)
(*   - the "token" one (src/static/main.js), whose sendMessage consumes    *)
(*     frames  data: {"response":...}                                      *)
(* A page loads one of them (env.app).  sendMessage is an async function:  *)
(* every await is a suspension point, so one invocation is a sequence of   *)
(* actions, and several invocations ("exchanges") may be in flight.  The   *)
(* same holds for handleChatSelection / loadChat, which load the messages  *)
(* of a chat selected in the sidebar.                                      *)
(*                                                                         *)
(* Texts are TLA+ strings; the string functions of the code (split,        *)
(* startsWith, slice, includes, trim, JSON.parse, marked.parse) are        *)
(* operators over them.                                                    *)
(***************************************************************************)
EXTENDS Integers, Sequences, FiniteSets, TLC

VARIABLES
    env,             \* what the outside world will do: the loaded script, the backend's answers
    messageInput,    \* Elements.messageInput.value / messageInputEl.value
    currentChatId,   \* State.currentChatId / currentChatId
    lastUserMessage, \* State.lastUserMessage / lastUserMessage
    chatMessages,    \* children of Elements.chatMessages / chatMessagesEl, in order
    ex,              \* one record per sendMessage invocation: its locals and its DOM elements
    net,             \* per invocation: the transport's position in the response body, the
                     \* chunk ends so far, the lines the read loop was given, and how
                     \* the transport ended the body ("done", "error", "" not yet)
    auth,            \* State.token, the token kept in localStorage and the display of
                     \* Elements.appContainer
    clicks,          \* the clicks the user has made on reasoning-toggle buttons
    loads,           \* one record per handleChatSelection / loadChat invocation
    lastCall         \* how the last call of sendMessage went on after reading the
                     \* input: "empty" (it returned), "sent", "" before any call

vars == <<env, messageInput, currentChatId, lastUserMessage, chatMessages, ex, net,
          auth, clicks, loads, lastCall>>

-----------------------------------------------------------------------------
(* Bounds of the model *)

\* frames in the response body of a session with a single sendMessage
MaxFrames == 3
\* frames in each response body of a session with several sendMessage calls,
\* and of a session that starts with no chat selected
MaxFramesShort == 1
\* sendMessage invocations in one session
MaxSends == 2
\* chunks the transport cuts one response body into
MaxChunks == 3
\* chat selections of the user in one session
MaxSelects == 2
\* clicks of the user on reasoning-toggle buttons in one session
MaxClicks == 2

\* Offsets inside a line at which the transport may cut it (besides the line
\* ends). A typed-event page has its lines cut inside the first JSON key
\* (data: {"typ), a token page further inside the payload
\* (data: {"response":"Hel).
CutOffsets(app) == IF app = "typed" THEN {11} ELSE {22}

-----------------------------------------------------------------------------
(* String functions of the code *)

\* String.prototype.startsWith
StartsWith(s, p) == Len(s) >= Len(p) /\ SubSeq(s, 1, Len(p)) = p

\* String.prototype.slice(n)
Slice(s, n) == SubSeq(s, n + 1, Len(s))

\* String.prototype.includes
Includes(s, sub) ==
    \E i \in 1..(Len(s) - Len(sub) + 1) : SubSeq(s, i, i + Len(sub) - 1) = sub

\* index of the first occurrence of the one-character string c in s at or
\* after position i; 0 when there is none
RECURSIVE IndexFrom(_, _, _)
IndexFrom(s, c, i) ==
    IF i > Len(s) THEN 0
    ELSE IF SubSeq(s, i, i) = c THEN i
    ELSE IndexFrom(s, c, i + 1)

\* String.prototype.split(sep) for a one-character separator: the pieces
\* between separators, the last piece included even when it is empty
RECURSIVE Split(_, _)
Split(s, sep) ==
    LET k == IndexFrom(s, sep, 1) IN
    IF k = 0 THEN <<s>>
    ELSE <<SubSeq(s, 1, k - 1)>> \o Split(SubSeq(s, k + 1, Len(s)), sep)

\* String.prototype.trim (the inputs of the model hold spaces only)
RECURSIVE Trim(_)
Trim(s) ==
    IF s = "" THEN s
    ELSE IF SubSeq(s, 1, 1) = " " THEN Trim(SubSeq(s, 2, Len(s)))
    ELSE IF SubSeq(s, Len(s), Len(s)) = " " THEN Trim(SubSeq(s, 1, Len(s) - 1))
    ELSE s

\* marked.parse of one paragraph of plain text; marked.parse('') is ''
Marked(s) == IF s = "" THEN "" ELSE "<p>" \o s \o "</p>\n"

-----------------------------------------------------------------------------
(* The wire: frames the backend may send *)

FrameCritic    == "data: {\"type\":\"chain\",\"content\":\"Critic: too vague\"}\n"
FrameResponder == "data: {\"type\":\"chain\",\"content\":\"Responder: ok\"}\n"
FrameNoContent == "data: {\"type\":\"chain\"}\n"
FrameFinal     == "data: {\"type\":\"final\",\"content\":\"Done.\"}\n"
FrameToken     == "data: {\"response\":\"Hello\"}\n"
FrameBad       == "data: {oops\n"
FramePlain     == "data: {\"type\":\"chain\",\"content\":\"thinking\"}\n"
FrameBoth      == "data: {\"type\":\"chain\",\"content\":\"Responder: a Critic: b\"}\n"
FrameToken2    == "data: {\"response\":\" world\"}\n"
\* a line that is not an event frame
FrameKeepAlive == ": keep-alive\n"
\* well-formed frames of a kind the page does not know
FramePing      == "data: {\"type\":\"ping\"}\n"
FrameEmpty     == "data: {\"response\":\"\"}\n"

\* The frames a page is sent. One response body draws its frames from one
\* of these sets: the events of both roles with a corrupted frame, the chain
\* events with and without content, the frames of the other wire variant,
\* chain events with no role marker or with both, events among lines that
\* are not frames, and events among frames of a kind the page does not know.
Frames(app) ==
    IF app = "typed"
    THEN { {FrameCritic, FrameResponder, FrameFinal, FrameBad},
           {FrameCritic, FrameNoContent, FrameFinal},
           {FrameToken, FrameFinal},
           {FramePlain, FrameBoth, FrameFinal},
           {FrameKeepAlive, FrameCritic, FrameFinal},
           {FramePing, FrameCritic, FrameFinal} }
    ELSE { {FrameToken, FrameFinal, FrameBad},
           {FrameToken, FrameToken2, FrameKeepAlive},
           {FrameEmpty, FrameToken} }

\* JSON.parse on the payloads of the model.  The well-formed payloads are the
\* ones listed; every other text a line can carry after 'data: ' here is a
\* proper prefix of one of them (a cut frame) or FrameBad's payload, and
\* JSON.parse throws a SyntaxError on each of those.
JSONTable ==
    [p \in { "{\"type\":\"chain\",\"content\":\"Critic: too vague\"}",
             "{\"type\":\"chain\",\"content\":\"Responder: ok\"}",
             "{\"type\":\"chain\"}",
             "{\"type\":\"final\",\"content\":\"Done.\"}",
             "{\"response\":\"Hello\"}",
             "{\"type\":\"chain\",\"content\":\"thinking\"}",
             "{\"type\":\"chain\",\"content\":\"Responder: a Critic: b\"}",
             "{\"response\":\" world\"}",
             "{\"type\":\"ping\"}",
             "{\"response\":\"\"}" } |->
        CASE p = "{\"type\":\"chain\",\"content\":\"Critic: too vague\"}" ->
                [type |-> "chain", content |-> "Critic: too vague"]
          [] p = "{\"type\":\"chain\",\"content\":\"Responder: ok\"}" ->
                [type |-> "chain", content |-> "Responder: ok"]
          [] p = "{\"type\":\"chain\"}" -> [type |-> "chain"]
          [] p = "{\"type\":\"final\",\"content\":\"Done.\"}" ->
                [type |-> "final", content |-> "Done."]
          [] p = "{\"response\":\"Hello\"}" -> [response |-> "Hello"]
          [] p = "{\"type\":\"chain\",\"content\":\"thinking\"}" ->
                [type |-> "chain", content |-> "thinking"]
          [] p = "{\"type\":\"chain\",\"content\":\"Responder: a Critic: b\"}" ->
                [type |-> "chain", content |-> "Responder: a Critic: b"]
          [] p = "{\"response\":\" world\"}" -> [response |-> " world"]
          [] p = "{\"type\":\"ping\"}" -> [type |-> "ping"]
          [] p = "{\"response\":\"\"}" -> [response |-> ""]]

JSONParses(p) == p \in DOMAIN JSONTable
JSONParse(p) == JSONTable[p]

\* a property of a parsed object is present (not undefined)
Has(data, f) == f \in DOMAIN data


-----------------------------------------------------------------------------
(* The outside world *)

TypedApp == "typed"     \* src/unnamed/part_000 is the loaded script
TokenApp == "token"     \* src/static/main.js is the loaded script

\* currentChatId = null
NoChat == 0
\* the chat_id the backend gives a chat created by createNewChat
NewChatId == 2

RECURSIVE Concat(_)
Concat(fs) == IF fs = <<>> THEN "" ELSE Head(fs) \o Concat(Tail(fs))

\* the response bodies of at most n frames
Streams(app, n) ==
    UNION { { Concat(fs) : fs \in UNION { [1..k -> F] : k \in 0..n } } : F \in Frames(app) }

\* What the backend does with one chat request: it answers with a status,
\* and on success the body carries `text`.  With "stall" the response
\* arrives and then no chunk of the body ever does, nor its end.
Plans(app, n) ==
    { [status |-> "ok", text |-> t] : t \in Streams(app, n) }
    \cup { [status |-> s, text |-> ""] : s \in {"http500", "http401", "netfail", "stall"} }

Apps == {TypedApp, TokenApp}

\* A session: the loaded script, the chat selected when it starts, whether
\* the backend accepts a chat creation, whether the message list is scrolled
\* to its bottom when an exchange starts, and the backend's answer to each
\* chat request.
\* a session with one message sent in a selected chat
StreamSessions ==
    UNION { { [app |-> a, chatId0 |-> 1, createOk |-> TRUE, atBottom |-> TRUE,
               responses |-> <<p>>] :
                 p \in Plans(a, MaxFrames) } : a \in Apps }

\* a session that starts with no chat selected
NoChatSessions ==
    UNION { { [app |-> a, chatId0 |-> NoChat, createOk |-> ok, atBottom |-> TRUE,
               responses |-> <<p>>] :
                 ok \in BOOLEAN, p \in Plans(a, MaxFramesShort) } : a \in Apps }

\* a session whose user has scrolled up in the message list
ScrolledUpSessions ==
    UNION { { [app |-> a, chatId0 |-> 1, createOk |-> TRUE, atBottom |-> FALSE,
               responses |-> <<p>>] :
                 p \in Plans(a, MaxFramesShort) } : a \in Apps }

\* a session with several messages, at most n, sent in a selected chat
ManySessions(n) ==
    UNION { { [app |-> a, chatId0 |-> 1, createOk |-> TRUE, atBottom |-> TRUE,
               responses |-> r] :
                 r \in UNION { [1..k -> Plans(a, MaxFramesShort)] : k \in 2..n } }
            : a \in Apps }

\* a session of the typed page in which the user clicks reasoning toggles
ToggleSessions ==
    { [app |-> TypedApp, chatId0 |-> 1, createOk |-> TRUE, atBottom |-> TRUE,
       responses |-> <<[status |-> "ok", text |-> Concat(fs)]>>] :
          fs \in UNION { [1..k -> {FrameCritic, FrameFinal}] : k \in 1..MaxFrames } }

\* what the backend does with a chat request of a session with two messages
PairPlans(app) ==
    { [status |-> "ok", text |-> Concat(fs)] :
         fs \in UNION { [1..k -> IF app = TypedApp THEN {FrameCritic, FrameFinal}
                                                   ELSE {FrameToken, FrameToken2}] :
                           k \in 0..MaxFramesShort } }
    \cup { [status |-> "http500", text |-> ""] }

\* a session with two messages sent in a selected chat
PairSessions ==
    UNION { { [app |-> a, chatId0 |-> 1, createOk |-> TRUE, atBottom |-> TRUE,
               responses |-> <<p, q>>] :
                 p \in PairPlans(a), q \in PairPlans(a) } : a \in Apps }

\* a session in which the user selects chats in the sidebar and sends nothing
SelectSessions ==
    { [app |-> a, chatId0 |-> NoChat, createOk |-> TRUE, atBottom |-> TRUE,
       responses |-> <<>>] : a \in Apps }

\* the chats of the sidebar
ChatIds == {3, 4}

\* what the backend does with a request for the messages of a chat
LoadStatuses == {"ok", "http500", "http401", "netfail"}

\* the message list showing the stored messages of chat c, as rendered by
\* handleChatSelection / loadChat
History(c) ==
    << [role |-> "user", ex |-> 0,
        html |-> Marked(IF c = 3 THEN "question of chat A" ELSE "question of chat B")],
       [role |-> "assistant", ex |-> 0,
        html |-> Marked(IF c = 3 THEN "answer of chat A" ELSE "answer of chat B")] >>

\* what the user types into the message field
Inputs == {"hi", " "}

\* the positions of `text` after which the transport may end a chunk: the
\* end of each line, and the offsets `offs` inside each line
RECURSIVE CutPointsFrom(_, _, _)
CutPointsFrom(text, offs, start) ==
    LET nl == IndexFrom(text, "\n", start + 1) IN
    IF nl = 0 THEN {}
    ELSE {nl} \cup { start + o : o \in { c \in offs : start + c < nl } }
              \cup CutPointsFrom(text, offs, nl)

CutPoints(app, text) == CutPointsFrom(text, CutOffsets(app), 0)

-----------------------------------------------------------------------------
(* sendMessage: the locals and DOM elements of one invocation *)

TypingText == "Assistant is typing..."
ErrorText  == "Error: Failed to send message"
ShowLabel  == "Show reasoning"
HideLabel  == "Hide reasoning"
\* String(undefined): the value of a missing property
Undefined  == "undefined"

\* the state of an invocation at its entry, before any element is created
NewExchange(message) ==
    [ pc        |-> "entry",
      outcome   |-> "",          \* how the function returned: done, failed, nochat
      message   |-> message,
      \* part_000: chainContainer, finalContainer, indicatorSpan, loadingInterval
      chainHTML    |-> "",       \* chainContainer.innerHTML
      chainDisplay |-> "",       \* chainContainer.style.display
      finalHTML    |-> "",       \* finalContainer.innerHTML
      finalDisplay |-> "",       \* finalContainer.style.display
      toggles      |-> <<>>,     \* the .reasoning-toggle buttons of the message
      indicator    |-> FALSE,    \* indicatorSpan is a child of the message
      interval     |-> FALSE,    \* loadingInterval is running
      finalAnswer  |-> "",
      criticResponses    |-> <<>>,
      responderResponses |-> <<>>,
      \* main.js: assistantMessageEl's content, fullMessage
      elContent    |-> "",
      fullMessage  |-> "",
      isAtBottom   |-> FALSE,    \* the snapshot of main.js line 307
      \* assignments chatMessages.scrollTop = scrollHeight made by the read loop
      scrolls      |-> 0,
      \* console.error calls of the per-line catch
      diagnostics  |-> 0 ]

\* (mutant) a chain event makes the chain container the shown one again
TypedChainReshows(st, data) ==
    [st EXCEPT !.chainDisplay = "block", !.finalDisplay = "none",
               !.chainHTML = IF Has(data, "content") THEN Marked(data.content) ELSE ""]

\* part_000 lines 385-405: a frame of type 'chain'
TypedChain(st, data) ==
    LET cleared == [st EXCEPT !.chainHTML = ""] IN
    IF ~Has(data, "content")
    THEN \* data.content.includes throws a TypeError, caught at line 434
         [cleared EXCEPT !.diagnostics = @ + 1]
    ELSE LET c == data.content
             stored ==
                 IF Includes(c, "Critic:")
                 THEN [cleared EXCEPT !.criticResponses = Append(@, c)]
                 ELSE IF Includes(c, "Responder:")
                 THEN [cleared EXCEPT !.responderResponses = Append(@, c)]
                 ELSE cleared
             role == IF Includes(c, "Critic:") THEN "Critic" ELSE "Responder"
         IN [stored EXCEPT !.chainHTML =
                "<span class=\"reasoning-role\">" \o role \o "</span><div>"
                    \o Marked(c) \o "</div>"]

\* (mutant) the final event appends its content to the final answer
TypedFinalAppends(st, data) ==
    LET shown == [st EXCEPT !.chainDisplay = "none", !.finalDisplay = "block"] IN
    IF ~Has(data, "content")
    THEN [shown EXCEPT !.finalAnswer = Undefined, !.diagnostics = @ + 1]
    ELSE [shown EXCEPT !.finalAnswer = @ \o data.content,
                       !.finalHTML = Marked(st.finalAnswer \o data.content),
                       !.toggles = Append(@, [expanded |-> FALSE, text |-> ShowLabel])]

\* part_000 lines 407-432: a frame of type 'final'
TypedFinal(st, data) ==
    LET shown == [st EXCEPT !.chainDisplay = "none", !.finalDisplay = "block"] IN
    IF ~Has(data, "content")
    THEN \* marked.parse(undefined) throws, caught at line 434
         [shown EXCEPT !.finalAnswer = Undefined, !.diagnostics = @ + 1]
    ELSE [shown EXCEPT !.finalAnswer = data.content,
                       !.finalHTML = Marked(data.content),
                       !.toggles = Append(@, [expanded |-> FALSE, text |-> ShowLabel])]

\* (mutant) the parse error leaves the try of the read loop: catch, finally
TypedParseErrorAborts(st) ==
    [st EXCEPT !.pc = "returned", !.outcome = "failed", !.chainHTML = ErrorText,
               !.interval = FALSE, !.indicator = FALSE, !.diagnostics = @ + 1]

\* (mutant) the catch of the per-line try also clears the chain container
TypedParseErrorClears(st) == [st EXCEPT !.diagnostics = @ + 1, !.chainHTML = ""]

\* part_000 lines 434-436: the catch of the per-line try
TypedParseError(st) == [st EXCEPT !.diagnostics = @ + 1]

\* (mutant) a non-empty line without the 'data: ' prefix is reported as an
\* error
TypedHandleLineStrict(st, line) ==
    IF line = "" THEN st
    ELSE IF ~StartsWith(line, "data: ") THEN TypedParseError(st)
    ELSE LET payload == Slice(line, 6) IN
         IF ~JSONParses(payload) THEN TypedParseError(st)
         ELSE LET data == JSONParse(payload) IN
              IF Has(data, "type") /\ data.type = "chain" THEN TypedChain(st, data)
              ELSE IF Has(data, "type") /\ data.type = "final" THEN TypedFinal(st, data)
              ELSE st

\* part_000 lines 380-437: the body of `for (const line of lines)`
TypedHandleLine(st, line) ==
    IF ~StartsWith(line, "data: ") THEN st
    ELSE LET payload == Slice(line, 6) IN
         IF ~JSONParses(payload) THEN TypedParseError(st)
         ELSE LET data == JSONParse(payload) IN
              IF Has(data, "type") /\ data.type = "chain" THEN TypedChain(st, data)
              ELSE IF Has(data, "type") /\ data.type = "final" THEN TypedFinal(st, data)
              ELSE st

\* (mutant) the fragment is put in front of the text accumulated so far
TokenPrepends(st, data) ==
    LET full == data.response \o st.fullMessage IN
    [st EXCEPT !.fullMessage = full, !.elContent = Marked(full),
               !.scrolls = IF st.isAtBottom THEN @ + 1 ELSE @]

\* main.js lines 342-355: a frame with a non-empty response
TokenAppend(st, data) ==
    LET full == st.fullMessage \o data.response IN
    [st EXCEPT !.fullMessage = full, !.elContent = Marked(full),
               !.scrolls = IF st.isAtBottom THEN @ + 1 ELSE @]

\* main.js lines 356-358: the catch of the per-line try
TokenParseError(st) == [st EXCEPT !.diagnostics = @ + 1]

\* (mutant) a frame is applied whenever its payload has a response property,
\* an empty one included
TokenHandleLineLoose(st, line) ==
    IF ~StartsWith(line, "data: ") THEN st
    ELSE LET payload == Slice(line, 6) IN
         IF ~JSONParses(payload) THEN TokenParseError(st)
         ELSE LET data == JSONParse(payload) IN
              IF Has(data, "response") THEN TokenAppend(st, data)
              ELSE st

\* main.js lines 338-360: the body of `for (const line of lines)`
TokenHandleLine(st, line) ==
    IF ~StartsWith(line, "data: ") THEN st
    ELSE LET payload == Slice(line, 6) IN
         IF ~JSONParses(payload) THEN TokenParseError(st)
         ELSE LET data == JSONParse(payload) IN
              IF Has(data, "response") /\ data.response # "" THEN TokenAppend(st, data)
              ELSE st

HandleLine(app, st, line) ==
    IF app = TypedApp THEN TypedHandleLine(st, line) ELSE TokenHandleLine(st, line)

\* the lines the read loop takes from one chunk
ChunkLines(chunk) == Split(chunk, "\n")

RECURSIVE HandleLines(_, _, _)
HandleLines(app, st, lines) ==
    IF lines = <<>> THEN st
    ELSE HandleLines(app, HandleLine(app, st, Head(lines)), Tail(lines))

\* part_000 lines 377-441, main.js lines 335-360: one pass of the read loop;
\* the typed loop ends each pass by scrolling the message list to its bottom
ProcessChunk(app, st, chunk) ==
    LET handled == HandleLines(app, st, ChunkLines(chunk)) IN
    IF app = TypedApp THEN [handled EXCEPT !.scrolls = @ + 1] ELSE handled

-----------------------------------------------------------------------------
(* Actions *)

\* the page as loaded, in a session of the set S
InitIn(S) ==
    /\ env \in S
    /\ messageInput = ""
    /\ currentChatId = env.chatId0
    /\ lastUserMessage = ""
    /\ chatMessages = <<>>
    /\ ex = <<>>
    /\ net = <<>>
    /\ auth = [token |-> "token", stored |-> TRUE, appDisplay |-> "flex"]
    /\ clicks = 0
    /\ loads = <<>>
    /\ lastCall = ""

Init == InitIn(StreamSessions \cup NoChatSessions \cup ScrolledUpSessions)
InitMany == InitIn(ManySessions(MaxSends) \cup NoChatSessions)
InitToggle == InitIn(ToggleSessions \cup NoChatSessions)
InitShort == InitIn(ScrolledUpSessions \cup NoChatSessions)
InitPair == InitIn(PairSessions \cup NoChatSessions)
InitSelect == InitIn(SelectSessions)

Exchanges == 1..Len(ex)

UserBubble(e)      == [role |-> "user", ex |-> e, html |-> Marked(ex[e].message)]
AssistantBubble(e) == [role |-> "assistant", ex |-> e, html |-> ""]

\* part_000 lines 328-361: the assistant message with its containers, the
\* typing indicator and its interval timer; then the request is issued
TypedStartAssistant(st) ==
    [st EXCEPT !.pc = "fetch", !.finalDisplay = "none",
               !.indicator = TRUE, !.interval = TRUE]

\* main.js lines 302-321: the assistant message showing the typing text; then
\* the request is issued
TokenStartAssistant(st) ==
    [st EXCEPT !.pc = "fetch", !.elContent = TypingText, !.isAtBottom = env.atBottom]

\* (mutant) the catch of sendMessage only logs the error
TypedCatchSilent(st) ==
    [st EXCEPT !.pc = "returned", !.outcome = "failed",
               !.interval = FALSE, !.indicator = FALSE]

\* part_000 lines 443-450: catch, then finally
TypedCatch(st) ==
    [st EXCEPT !.pc = "returned", !.outcome = "failed", !.chainHTML = ErrorText,
               !.interval = FALSE, !.indicator = FALSE]

\* part_000 lines 446-450: finally, on the normal end of the read loop
TypedFinally(st) ==
    [st EXCEPT !.pc = "returned", !.outcome = "done",
               !.interval = FALSE, !.indicator = FALSE]

\* main.js lines 363-366: catch
TokenCatch(st) ==
    [st EXCEPT !.pc = "returned", !.outcome = "failed", !.elContent = ErrorText]

\* (mutant) the loop does not leave on done
TokenEndKeepsReading(st) == [st EXCEPT !.outcome = "done"]

\* main.js line 333: break, and the function ends
TokenEnd(st) == [st EXCEPT !.pc = "returned", !.outcome = "done"]

\* the user types into the message field
TypeInput ==
    /\ Len(ex) < Len(env.responses)
    /\ Trim(messageInput) = ""
    /\ \E t \in Inputs : messageInput' = t
    /\ UNCHANGED <<env, auth, clicks, currentChatId, lastUserMessage, chatMessages, ex, net, loads, lastCall>>

\* (mutant) sendMessage does not return on an empty message
TypedSendMessageUnguarded ==
    /\ env.app = TypedApp
    /\ Len(ex) < Len(env.responses)
    /\ LET message == Trim(messageInput)
           e == Len(ex) + 1
           st == NewExchange(message)
       IN /\ lastCall' = "sent"
          /\ lastUserMessage' = message
          /\ messageInput' = ""
          /\ net' = Append(net, [pos |-> 0, cuts |-> <<>>, lines |-> <<>>, ended |-> ""])
          /\ ex' = Append(ex, TypedStartAssistant(st))
          /\ chatMessages' = chatMessages \o
                 << [role |-> "user", ex |-> e, html |-> Marked(message)],
                    [role |-> "assistant", ex |-> e, html |-> ""] >>
          /\ UNCHANGED <<env, auth, clicks, currentChatId, loads>>

\* part_000 lines 311-361: sendMessage up to its first await
TypedSendMessage ==
    /\ env.app = TypedApp
    /\ Len(ex) < Len(env.responses)
    /\ LET message == Trim(messageInput)
           e == Len(ex) + 1
           st == NewExchange(message)
       IN IF message = ""
          THEN /\ lastCall' = "empty"
               /\ UNCHANGED <<env, messageInput, currentChatId, lastUserMessage,
                              chatMessages, ex, net, auth, clicks, loads>>
          ELSE /\ lastCall' = "sent"
               /\ lastUserMessage' = message
               /\ messageInput' = ""
               /\ net' = Append(net, [pos |-> 0, cuts |-> <<>>, lines |-> <<>>, ended |-> ""])
               /\ IF currentChatId = NoChat
                  THEN /\ ex' = Append(ex, [st EXCEPT !.pc = "createChat"])
                       /\ chatMessages' = Append(chatMessages,
                              [role |-> "user", ex |-> e, html |-> Marked(message)])
                  ELSE /\ ex' = Append(ex, TypedStartAssistant(st))
                       /\ chatMessages' = chatMessages \o
                              << [role |-> "user", ex |-> e, html |-> Marked(message)],
                                 [role |-> "assistant", ex |-> e, html |-> ""] >>
               /\ UNCHANGED <<env, auth, clicks, currentChatId, loads>>

\* main.js lines 284-321: sendMessage up to its first await
TokenSendMessage ==
    /\ env.app = TokenApp
    /\ Len(ex) < Len(env.responses)
    /\ LET message == Trim(messageInput)
           e == Len(ex) + 1
           st == NewExchange(message)
       IN IF message = ""
          THEN /\ lastCall' = "empty"
               /\ UNCHANGED <<env, messageInput, currentChatId, lastUserMessage,
                              chatMessages, ex, net, auth, clicks, loads>>
          ELSE /\ lastCall' = "sent"
               /\ lastUserMessage' = message
               /\ net' = Append(net, [pos |-> 0, cuts |-> <<>>, lines |-> <<>>, ended |-> ""])
               /\ IF currentChatId = NoChat
                  THEN /\ ex' = Append(ex, [st EXCEPT !.pc = "createChat"])
                       /\ UNCHANGED <<chatMessages, messageInput>>
                  ELSE /\ ex' = Append(ex, TokenStartAssistant(st))
                       /\ messageInput' = ""
                       /\ chatMessages' = chatMessages \o
                              << [role |-> "user", ex |-> e, html |-> Marked(message)],
                                 [role |-> "assistant", ex |-> e, html |-> ""] >>
               /\ UNCHANGED <<env, auth, clicks, currentChatId, loads>>

\* (mutant) sendMessage goes on when createNewChat returned null
CreateChatResponseGoesOn(e) ==
    /\ ex[e].pc = "createChat"
    /\ IF env.createOk
       THEN /\ currentChatId' = NewChatId
            /\ ex' = [ex EXCEPT ![e].pc = "updateChats"]
       ELSE /\ ex' = [ex EXCEPT ![e] = IF env.app = TypedApp THEN TypedStartAssistant(@)
                                                           ELSE TokenStartAssistant(@)]
            /\ UNCHANGED currentChatId
    /\ UNCHANGED <<env, auth, clicks, messageInput, lastUserMessage, chatMessages, net, loads, lastCall>>

\* createNewChat up to the answer to the chat creation (part_000 lines
\* 533-538 and 543-546, main.js lines 107-124 and 130-133): on failure it
\* returns null and sendMessage returns (part_000 line 325, main.js line 292)
CreateChatResponse(e) ==
    /\ ex[e].pc = "createChat"
    /\ IF env.createOk
       THEN /\ currentChatId' = NewChatId
            /\ ex' = [ex EXCEPT ![e].pc = "updateChats"]
       ELSE /\ ex' = [ex EXCEPT ![e].pc = "returned", ![e].outcome = "nochat"]
            /\ UNCHANGED currentChatId
    /\ UNCHANGED <<env, auth, clicks, messageInput, lastUserMessage, chatMessages, net, loads, lastCall>>

\* createNewChat after updateChats (part_000 lines 539-542, main.js lines
\* 125-128): the message list is cleared; sendMessage then goes on to its
\* request (part_000 lines 328-368, main.js lines 295-321)
UpdateChatsDone(e) ==
    /\ ex[e].pc = "updateChats"
    /\ IF env.app = TypedApp
       THEN /\ ex' = [ex EXCEPT ![e] = TypedStartAssistant(@)]
            /\ chatMessages' = <<AssistantBubble(e)>>
            /\ UNCHANGED messageInput
       ELSE /\ ex' = [ex EXCEPT ![e] = TokenStartAssistant(@)]
            /\ chatMessages' = <<UserBubble(e), AssistantBubble(e)>>
            /\ messageInput' = ""
    /\ UNCHANGED <<env, auth, clicks, currentChatId, lastUserMessage, net, loads, lastCall>>

\* part_000 lines 623-629: logout
Logout(a) == [a EXCEPT !.token = "", !.stored = FALSE, !.appDisplay = "none"]

\* (mutant) API.request logs the user out on every failure status
APIRequestStrict(a, status) ==
    IF status \in {"http401", "http500"} THEN [auth |-> Logout(a), rejected |-> TRUE]
    ELSE IF status = "netfail" THEN [auth |-> a, rejected |-> TRUE]
    ELSE [auth |-> a, rejected |-> FALSE]

\* part_000 lines 35-60: API.request, for a backend answering with `status`:
\* the session it leaves, and whether its promise rejects
APIRequest(a, status) ==
    IF status = "http401" THEN [auth |-> Logout(a), rejected |-> TRUE]
    ELSE IF status \in {"http500", "netfail"} THEN [auth |-> a, rejected |-> TRUE]
    ELSE [auth |-> a, rejected |-> FALSE]

\* main.js lines 310-325 and 138-141: fetch, then the test of response.ok
PlainFetch(a, status) ==
    [auth |-> a, rejected |-> status \in {"http500", "http401", "netfail"}]

\* the request of the loaded script
Request(a, status) ==
    IF env.app = TypedApp THEN APIRequest(a, status) ELSE PlainFetch(a, status)

\* the answer to the chat request: API.sendMessage / fetch resolves or
\* rejects (part_000 lines 46-59 and 364-371, main.js lines 310-329); only
\* API.request of part_000 tells status 401 from the other failures
FetchResponse(e) ==
    /\ ex[e].pc = "fetch"
    /\ LET r == Request(auth, env.responses[e].status) IN
         /\ IF ~r.rejected
            THEN ex' = [ex EXCEPT ![e].pc = "read"]
            ELSE ex' = [ex EXCEPT ![e] =
                           IF env.app = TypedApp THEN TypedCatch(@) ELSE TokenCatch(@)]
         /\ auth' = r.auth
    /\ UNCHANGED <<env, clicks, messageInput, currentChatId, lastUserMessage, chatMessages, net, loads, lastCall>>

\* (mutant) the accumulators and elements are shared by the invocations: a
\* chunk of any exchange is applied to the newest assistant message
ReadChunkShared(e) ==
    /\ ex[e].pc = "read"
    /\ LET text == env.responses[e].text
           from == net[e].pos
       IN /\ from < Len(text)
          /\ \E to \in (IF Len(net[e].cuts) + 1 < MaxChunks THEN CutPoints(env.app, text) ELSE {})
                           \cup {Len(text)} :
                /\ to > from
                /\ ex' = [ex EXCEPT ![Len(ex)] =
                             ProcessChunk(env.app, @, SubSeq(text, from + 1, to))]
                /\ net' = [net EXCEPT ![e] =
                              [pos |-> to, cuts |-> Append(@.cuts, to),
                               lines |-> @.lines \o ChunkLines(SubSeq(text, from + 1, to)),
                               ended |-> ""]]
    /\ UNCHANGED <<env, auth, clicks, messageInput, currentChatId, lastUserMessage, chatMessages, loads, lastCall>>

\* reader.read() resolves with a chunk, and the loop body runs on it
\* (part_000 lines 374-441, main.js lines 332-360)
ReadChunk(e) ==
    /\ ex[e].pc = "read"
    /\ LET text == env.responses[e].text
           from == net[e].pos
       IN /\ from < Len(text)
          /\ \E to \in (IF Len(net[e].cuts) + 1 < MaxChunks THEN CutPoints(env.app, text) ELSE {})
                           \cup {Len(text)} :
                /\ to > from
                /\ ex' = [ex EXCEPT ![e] =
                             ProcessChunk(env.app, @, SubSeq(text, from + 1, to))]
                /\ net' = [net EXCEPT ![e] =
                              [pos |-> to, cuts |-> Append(@.cuts, to),
                               lines |-> @.lines \o ChunkLines(SubSeq(text, from + 1, to)),
                               ended |-> ""]]
    /\ UNCHANGED <<env, auth, clicks, messageInput, currentChatId, lastUserMessage, chatMessages, loads, lastCall>>

\* reader.read() resolves with done (part_000 line 375 and 446-450, main.js
\* line 333)
ReadDone(e) ==
    /\ ex[e].pc = "read"
    /\ env.responses[e].status = "ok"
    /\ net[e].pos = Len(env.responses[e].text)
    /\ ex' = [ex EXCEPT ![e] =
                 IF env.app = TypedApp THEN TypedFinally(@) ELSE TokenEnd(@)]
    /\ net' = [net EXCEPT ![e].ended = "done"]
    /\ UNCHANGED <<env, auth, clicks, messageInput, currentChatId, lastUserMessage, chatMessages, loads, lastCall>>

\* reader.read() rejects: the connection is lost after the bytes received so
\* far (part_000 lines 443-450, main.js lines 363-366)
ReadError(e) ==
    /\ ex[e].pc = "read"
    /\ env.responses[e].status = "ok"
    /\ net[e].pos = Len(env.responses[e].text)
    /\ ex' = [ex EXCEPT ![e] =
                 IF env.app = TypedApp THEN TypedCatch(@) ELSE TokenCatch(@)]
    /\ net' = [net EXCEPT ![e].ended = "error"]
    /\ UNCHANGED <<env, auth, clicks, messageInput, currentChatId, lastUserMessage, chatMessages, loads, lastCall>>

Next ==
    \/ TypeInput
    \/ TypedSendMessage
    \/ TokenSendMessage
    \/ \E e \in Exchanges : CreateChatResponse(e)
    \/ \E e \in Exchanges : UpdateChatsDone(e)
    \/ \E e \in Exchanges : FetchResponse(e)
    \/ \E e \in Exchanges : ReadChunk(e)
    \/ \E e \in Exchanges : ReadDone(e)
    \/ \E e \in Exchanges : ReadError(e)

\* part_000 lines 420-430: the click listener of the i-th reasoning-toggle
\* button of the message of e
ToggleClick(e, i) ==
    /\ clicks < MaxClicks
    /\ i \in 1..Len(ex[e].toggles)
    /\ clicks' = clicks + 1
    /\ ex' = [ex EXCEPT ![e] =
                 IF @.toggles[i].expanded
                 THEN [@ EXCEPT !.chainDisplay = "none",
                                !.toggles[i] = [expanded |-> FALSE, text |-> ShowLabel]]
                 ELSE [@ EXCEPT !.chainDisplay = "block",
                                !.toggles[i] = [expanded |-> TRUE, text |-> HideLabel]]]
    /\ UNCHANGED <<env, auth, messageInput, currentChatId, lastUserMessage, chatMessages, net, loads, lastCall>>

\* the page with a user who also clicks the reasoning toggles
NextToggle ==
    \/ Next
    \/ \E e \in Exchanges : \E i \in 1..Len(ex[e].toggles) : ToggleClick(e, i)

\* part_000 lines 287-288, main.js lines 136-140: the user selects chat c in
\* the sidebar; handleChatSelection / loadChat asks for its messages
SelectChat(c) ==
    /\ Len(loads) < MaxSelects
    /\ loads' = Append(loads, [chatId |-> c, pc |-> "pending", status |-> ""])
    /\ UNCHANGED <<env, messageInput, currentChatId, lastUserMessage, chatMessages,
                   ex, net, auth, clicks, lastCall>>

\* part_000 lines 289-308, main.js lines 141-157: the answer to the request
\* of the l-th selection arrives; on success the list is cleared, the
\* messages of the chat are rendered and the chat becomes the current one
LoadResponse(l) ==
    /\ loads[l].pc = "pending"
    /\ \E status \in LoadStatuses :
          LET r == Request(auth, status) IN
          /\ auth' = r.auth
          /\ IF r.rejected
             THEN /\ loads' = [loads EXCEPT ![l].pc = "failed", ![l].status = status]
                  /\ UNCHANGED <<chatMessages, currentChatId>>
             ELSE /\ loads' = [loads EXCEPT ![l].pc = "shown", ![l].status = status]
                  /\ chatMessages' = History(loads[l].chatId)
                  /\ currentChatId' = loads[l].chatId
    /\ UNCHANGED <<env, messageInput, lastUserMessage, ex, net, clicks, lastCall>>

\* the page with a user who selects chats
NextSelect ==
    \/ \E c \in ChatIds : SelectChat(c)
    \/ \E l \in 1..Len(loads) : LoadResponse(l)

\* chats selected in the sidebar, their loads in flight together
SpecSelect == InitSelect /\ [][NextSelect]_vars

\* one message sent (also with no chat selected)
Spec == Init /\ [][Next]_vars

\* one message sent and a short answer, the event loop running every
\* continuation that is ready
SpecLive == InitShort /\ [][Next]_vars /\ WF_vars(Next)

\* one message sent, and the reasoning toggles clicked
SpecToggle == InitToggle /\ [][NextToggle]_vars

\* several messages sent, their exchanges in flight together
SpecMany == InitMany /\ [][Next]_vars

\* two messages sent, their exchanges in flight together or one after the
\* other
SpecPair == InitPair /\ [][Next]_vars

-----------------------------------------------------------------------------
(* What an exchange has received, and what it shows *)

Plan(e) == env.responses[e]
Text(e) == Plan(e).text

\* the lines the read loop of e has iterated over, chunk after chunk
LinesSeen(e) == net[e].lines

\* the part of the body received so far
Received(e) == SubSeq(Text(e), 1, net[e].pos)

\* the lines that reach the frame decoder: the non-empty ones
NonEmpty(lines) == SelectSeq(lines, LAMBDA l : l # "")

\* no chunk of e ended inside a line
NoLineCut(e) ==
    \A i \in 1..Len(net[e].cuts) :
        SubSeq(Text(e), net[e].cuts[i], net[e].cuts[i]) = "\n"

IsData(l)     == StartsWith(l, "data: ")
IsParsable(l) == IsData(l) /\ JSONParses(Slice(l, 6))
Payload(l)    == JSONParse(Slice(l, 6))
IsType(l, t)  == IsParsable(l) /\ Has(Payload(l), "type") /\ Payload(l).type = t
IsChain(l)    == IsType(l, "chain") /\ Has(Payload(l), "content")
IsFinal(l)    == IsType(l, "final") /\ Has(Payload(l), "content")
IsToken(l)    == IsParsable(l) /\ Has(Payload(l), "response") /\ Payload(l).response # ""

Typed(e) == env.app = TypedApp
Token(e) == env.app = TokenApp

Streaming(e) == ex[e].pc = "read"
Returned(e)  == ex[e].pc = "returned"
Done(e)      == Returned(e) /\ ex[e].outcome = "done"
Failed(e)    == Returned(e) /\ ex[e].outcome = "failed"

\* the 'Assistant is typing' indicator is in the assistant message
IndicatorShown(e) ==
    IF Typed(e) THEN ex[e].indicator ELSE ex[e].elContent = TypingText

\* the final-answer text the assistant message displays
FinalDisplayed(st) ==
    IF st.finalDisplay = "block" THEN st.finalHTML ELSE st.elContent

\* the final-answer content accumulated by the exchange
FinalAccumulated(st) == st.finalAnswer \o st.fullMessage

\* The phase an exchange is in, read off its elements and the lines it was
\* given: final once the final answer is displayed (the final container is
\* shown / the message holds rendered tokens), chain once a chain event has
\* been given to it, idle before; 3 once the function has returned.
FinalShown(app, st) ==
    IF app = TypedApp THEN st.finalDisplay = "block"
    ELSE st.fullMessage # "" /\ st.elContent = Marked(st.fullMessage)

Phase(app, st, lines) ==
    IF st.pc = "returned" THEN 3
    ELSE IF FinalShown(app, st) THEN 2
    ELSE IF app = TypedApp /\ \E i \in 1..Len(lines) : IsChain(lines[i]) THEN 1
    ELSE 0

PhaseRank(e) == Phase(env.app, ex[e], LinesSeen(e))

-----------------------------------------------------------------------------
(* Claims *)

\* C1 (as claimed): however the response text is cut into chunks, the lines
\* the read loop hands to the frame decoder are the lines of the whole text:
\* once the whole body has been read, the non-empty lines seen are the
\* non-empty lines of the text arriving as one chunk.
C1_ReassemblyAsClaimed ==
    \A e \in Exchanges :
        (Streaming(e) /\ net[e].pos = Len(Text(e)))
            => NonEmpty(LinesSeen(e)) = NonEmpty(ChunkLines(Text(e)))

\* C2 (as claimed): typed sendMessage, chunk 1 the whole chain frame
\* 'Critic: too vague', chunks 2 and 3 the final frame cut inside its JSON
\* payload: the chain event is stored as critic, the final frame is decoded
\* exactly once with content 'Done.', the final container is shown, and no
\* fragment of the cut frame reached JSON.parse.
C2_Scenario(e) ==
    /\ Typed(e)
    /\ Text(e) = FrameCritic \o FrameFinal
    /\ net[e].cuts = <<Len(FrameCritic), Len(FrameCritic) + 11, Len(Text(e))>>

C2_SplitFinalFrameAsClaimed ==
    \A e \in Exchanges :
        C2_Scenario(e) =>
            /\ ex[e].criticResponses = <<"Critic: too vague">>
            /\ ex[e].finalAnswer = "Done."
            /\ Len(ex[e].toggles) = 1
            /\ ex[e].finalDisplay = "block"
            /\ ex[e].diagnostics = 0

\* C3 (as claimed): token sendMessage, one frame carrying response 'Hello'
\* delivered as two chunks cut inside the JSON payload: after both chunks the
\* accumulated final text is 'Hello', and no chain phase was entered.
C3_Scenario(e) ==
    /\ Token(e)
    /\ Text(e) = FrameToken
    /\ net[e].cuts = <<22, Len(FrameToken)>>

C3_SplitTokenFrameAsClaimed ==
    \A e \in Exchanges :
        /\ C3_Scenario(e) => ex[e].fullMessage = "Hello"
        /\ (Token(e) /\ Text(e) = FrameToken) => PhaseRank(e) # 1


(* What the lines given to an exchange amount to, frame by frame *)

Contents(lines) == [i \in 1..Len(lines) |-> Payload(lines[i]).content]

ExpectedCritic(lines) ==
    Contents(SelectSeq(lines,
        LAMBDA l : IsChain(l) /\ Includes(Payload(l).content, "Critic:")))

ExpectedResponder(lines) ==
    Contents(SelectSeq(lines,
        LAMBDA l : /\ IsChain(l)
                   /\ ~Includes(Payload(l).content, "Critic:")
                   /\ Includes(Payload(l).content, "Responder:")))

ExpectedFinal(lines) ==
    LET finals == SelectSeq(lines, LAMBDA l : IsType(l, "final")) IN
    IF finals = <<>> THEN ""
    ELSE IF IsFinal(finals[Len(finals)]) THEN Payload(finals[Len(finals)]).content
    ELSE Undefined

ExpectedTokens(lines) ==
    LET tokens == SelectSeq(lines, IsToken) IN
    Concat([i \in 1..Len(tokens) |-> Payload(tokens[i]).response])

\* the data lines whose handling throws inside the per-line try
Throws(app, l) ==
    /\ IsData(l)
    /\ \/ ~IsParsable(l)
       \/ /\ app = TypedApp
          /\ IsType(l, "chain") \/ IsType(l, "final")
          /\ ~Has(Payload(l), "content")

ExpectedDiagnostics(app, lines) == Len(SelectSeq(lines, LAMBDA l : Throws(app, l)))

\* C4: a 'data: ' line whose payload fails to parse never aborts the stream.
\* In both sendMessage implementations every line that throws is logged once,
\* every well-formed frame among the lines given to the read loop has been
\* applied whatever lines threw before it, the loop goes on reading while the
\* body has bytes left, and an exchange fails only for a transport reason.
C4_ParseErrorNeverAborts ==
    \A e \in Exchanges :
        LET lines == LinesSeen(e) IN
        /\ ex[e].diagnostics = ExpectedDiagnostics(env.app, lines)
        /\ Typed(e) =>
              /\ ex[e].criticResponses = ExpectedCritic(lines)
              /\ ex[e].responderResponses = ExpectedResponder(lines)
              /\ ex[e].finalAnswer = ExpectedFinal(lines)
        /\ Token(e) => ex[e].fullMessage = ExpectedTokens(lines)
        /\ (0 < net[e].pos /\ net[e].pos < Len(Text(e))) => Streaming(e)
        /\ Failed(e) => (Plan(e).status # "ok" \/ net[e].pos = Len(Text(e)))

\* C4 witness: an unparsable line was followed in the same chunk by a frame
\* that was applied, and a frame of a later chunk was applied too.
C4_Witness ==
    \E e \in Exchanges :
        /\ Text(e) \in { FrameBad \o FrameCritic \o FrameFinal,
                         FrameBad \o FrameToken \o FrameToken }
        /\ net[e].cuts = <<Len(Text(e)) - Len(FrameFinal), Len(Text(e))>>
              \/ net[e].cuts = <<Len(Text(e)) - Len(FrameToken), Len(Text(e))>>
        /\ ex[e].diagnostics = 1
        /\ \/ ex[e].criticResponses # <<>> /\ ex[e].finalAnswer = "Done."
           \/ ex[e].fullMessage = "HelloHello"


\* the state in which the read loop of sendMessage starts
StartState(app, message) ==
    [ (IF app = TypedApp THEN TypedStartAssistant(NewExchange(message))
                         ELSE TokenStartAssistant(NewExchange(message)))
      EXCEPT !.pc = "read" ]

RECURSIVE Join(_)
Join(lines) ==
    IF Len(lines) = 1 THEN lines[1] ELSE Head(lines) \o "\n" \o Join(Tail(lines))

\* the text without its frames of unparsable payload
WithoutUnparsable(text) ==
    Join(SelectSeq(ChunkLines(text), LAMBDA l : ~(IsData(l) /\ ~IsParsable(l))))

\* everything an exchange holds and shows, the diagnostics count and the
\* scrolling of the list aside
Rendered(st) == [st EXCEPT !.diagnostics = 0, !.scrolls = 0]

\* C5: malformed-frame resilience.  When frames arrive whole, a stream with
\* frames of unparsable payload among its events leaves the exchange with the
\* same chain state (critic and responder logs, displayed chain content, and
\* everything else it holds and shows) and the same phase as the stream
\* without those frames.
C5_MalformedFrameResilience ==
    \A e \in Exchanges :
        (Streaming(e) /\ NoLineCut(e)) =>
            LET text  == WithoutUnparsable(Received(e))
                clean == ProcessChunk(env.app, StartState(env.app, ex[e].message), text)
            IN /\ Rendered(ex[e]) = Rendered(clean)
               /\ PhaseRank(e) = Phase(env.app, clean, ChunkLines(text))

\* C5 witness: a corrupted frame arrived between two chain events, and both
\* chain events are in the logs.
C5_Witness ==
    \E e \in Exchanges :
        /\ Typed(e) /\ Streaming(e) /\ NoLineCut(e)
        /\ Received(e) = FrameCritic \o FrameBad \o FrameResponder
        /\ ex[e].diagnostics = 1
        /\ ex[e].criticResponses = <<"Critic: too vague">>
        /\ ex[e].responderResponses = <<"Responder: ok">>

\* C6 (as claimed): when the reader fails after final-answer content was
\* accumulated, the failed exchange still displays that content, in the
\* typed and in the token sendMessage.
C6_PartialFailurePreservedAsClaimed ==
    \A e \in Exchanges :
        (Failed(e) /\ Plan(e).status = "ok" /\ FinalAccumulated(ex[e]) # "")
            => Includes(FinalDisplayed(ex[e]), FinalAccumulated(ex[e]))

\* C7 (as claimed): however an exchange ends (normal end of the stream, also
\* with no event decoded; rejected request; reader failure), the typing
\* indicator is gone from the assistant message and its timer is cleared.
C7_IndicatorTeardownAsClaimed ==
    \A e \in Exchanges :
        (Done(e) \/ Failed(e)) => (~IndicatorShown(e) /\ ~ex[e].interval)

\* C8 (as claimed): at most one stream is being consumed and at most one
\* typing indicator is active at any time.
C8_OneLiveExchangeAsClaimed ==
    /\ Cardinality({ e \in Exchanges : Streaming(e) }) <= 1
    /\ Cardinality({ e \in Exchanges : IndicatorShown(e) }) <= 1

C10_BothVariantsAsClaimed ==
    \A e \in Exchanges :
        LET lines == NonEmpty(LinesSeen(e)) IN
        (Done(e) /\ NoLineCut(e) /\ lines # <<>>) =>
            /\ ((\A i \in 1..Len(lines) : IsChain(lines[i]) \/ IsFinal(lines[i]))
                    /\ IsFinal(lines[Len(lines)]))
                  => Includes(FinalDisplayed(ex[e]), ExpectedFinal(lines))
            /\ (\A i \in 1..Len(lines) : IsToken(lines[i]))
                  => Includes(FinalDisplayed(ex[e]), ExpectedTokens(lines))

\* index of the first occurrence of sub in s at or after position i; 0 when
\* there is none
RECURSIVE IndexOfFrom(_, _, _)
IndexOfFrom(s, sub, i) ==
    IF i + Len(sub) - 1 > Len(s) THEN 0
    ELSE IF SubSeq(s, i, i + Len(sub) - 1) = sub THEN i
    ELSE IndexOfFrom(s, sub, i + 1)

\* s holds the texts cs one after the other, in this order
RECURSIVE ContainsInOrder(_, _, _)
ContainsInOrder(s, cs, from) ==
    IF cs = <<>> THEN TRUE
    ELSE LET i == IndexOfFrom(s, Head(cs), from) IN
         i # 0 /\ ContainsInOrder(s, Tail(cs), i + Len(Head(cs)))

\* the contents of the chain events among the lines, in arrival order
ChainLog(lines) == Contents(SelectSeq(lines, IsChain))

\* C11 (as claimed): the chain panel reflects the full cumulative chain log:
\* while the typed sendMessage streams, the chain container holds the content
\* of every chain event applied so far, in arrival order.
C11_CumulativeChainPanelAsClaimed ==
    \A e \in Exchanges :
        (Typed(e) /\ Streaming(e))
            => ContainsInOrder(ex[e].chainHTML, ChainLog(LinesSeen(e)), 1)


\* the lines of e that its sendMessage applied as events
EventsSeen(e) ==
    SelectSeq(LinesSeen(e),
        LAMBDA l : IF Typed(e) THEN IsType(l, "chain") \/ IsType(l, "final")
                               ELSE IsToken(l))

\* the assistant message of e holds the error text in an element that is
\* displayed
MessageShowsError(e) ==
    IF Typed(e) THEN ex[e].chainHTML = ErrorText /\ ex[e].chainDisplay # "none"
                ELSE ex[e].elContent = ErrorText

\* the backend's answer to the request of e is a failure
Rejected(e) == Plan(e).status \in {"http500", "http401", "netfail"}

C13_AutoScrollSnapshotAsClaimed ==
    \A e \in Exchanges :
        /\ (env.atBottom /\ EventsSeen(e) # <<>>) => ex[e].scrolls > 0
        /\ ~env.atBottom => ex[e].scrolls = 0


\* the assistant message of e is in the message list
HasAssistantMessage(e) == ex[e].pc \in {"fetch", "read"} \/ Done(e) \/ Failed(e)

\* the reasoning (chain) panel of an exchange is displayed
ReasoningVisible(st) == st.chainDisplay # "none"

\* C14 (as claimed): the 'toggle reasoning' action is available in every
\* state of an exchange: a message has a reasoning toggle before any final
\* event, during the final phase and after done/failed; and each click flips
\* the visibility of the chain panel and leaves the phase and the accumulated
\* chain and final text as they were.
C14_ToggleAlwaysAvailableAsClaimed ==
    [][ \A e \in Exchanges :
           /\ HasAssistantMessage(e)' => Len(ex'[e].toggles) >= 1
           /\ (clicks' # clicks /\ ex'[e] # ex[e]) =>
                 /\ ReasoningVisible(ex'[e]) # ReasoningVisible(ex[e])
                 /\ PhaseRank(e)' = PhaseRank(e)
                 /\ ex'[e].chainHTML = ex[e].chainHTML
                 /\ ex'[e].criticResponses = ex[e].criticResponses
                 /\ ex'[e].responderResponses = ex[e].responderResponses
                 /\ ex'[e].finalAnswer = ex[e].finalAnswer
                 /\ ex'[e].finalHTML = ex[e].finalHTML ]_vars


\* the response of the first exchange has arrived and no chunk of its body
\* ever will
Stalled == Len(ex) >= 1 /\ Plan(1).status = "stall" /\ Streaming(1)

\* C15 (as claimed): an exchange whose transport stalls after the request
\* was issued does not hang forever: it reaches the failed state with the
\* typing indicator torn down.
C15_StallTimesOutAsClaimed ==
    Stalled ~> (Len(ex) >= 1 /\ Failed(1) /\ ~IndicatorShown(1) /\ ~ex[1].interval)


(* The role of a chain event *)

CriticMarker    == "Critic:"
ResponderMarker == "Responder:"

\* the role label the chain panel displays, "" when it displays none
DisplayedRole(st) ==
    IF StartsWith(st.chainHTML, "<span class=\"reasoning-role\">Critic</span>")
    THEN "Critic"
    ELSE IF StartsWith(st.chainHTML, "<span class=\"reasoning-role\">Responder</span>")
    THEN "Responder"
    ELSE ""

\* the lines of type 'chain' among the lines, with or without content
ChainLines(lines) == SelectSeq(lines, LAMBDA l : IsType(l, "chain"))

InLog(c, log) == \E i \in 1..Len(log) : log[i] = c

\* C16 (as claimed): a chain event whose content holds only 'Critic:' is
\* tagged critic, one whose content holds only 'Responder:' is tagged
\* responder, and one whose content holds neither marker is tagged unknown:
\* it is in neither per-role log and the panel displays it under neither
\* role label.
C16_RoleClassificationAsClaimed ==
    \A e \in Exchanges :
        (Typed(e) /\ Streaming(e)) =>
            LET cs     == ChainLog(LinesSeen(e))
                chains == ChainLines(LinesSeen(e))
            IN /\ \A i \in 1..Len(cs) :
                     LET critic    == Includes(cs[i], CriticMarker)
                         responder == Includes(cs[i], ResponderMarker)
                     IN /\ (critic /\ ~responder) =>
                              (InLog(cs[i], ex[e].criticResponses)
                                 /\ ~InLog(cs[i], ex[e].responderResponses))
                        /\ (responder /\ ~critic) =>
                              (InLog(cs[i], ex[e].responderResponses)
                                 /\ ~InLog(cs[i], ex[e].criticResponses))
                        /\ (~critic /\ ~responder) =>
                              (~InLog(cs[i], ex[e].criticResponses)
                                 /\ ~InLog(cs[i], ex[e].responderResponses))
               /\ (chains # <<>> /\ IsChain(chains[Len(chains)])) =>
                     LET c == cs[Len(cs)]
                         critic    == Includes(c, CriticMarker)
                         responder == Includes(c, ResponderMarker)
                     IN /\ (critic /\ ~responder) => DisplayedRole(ex[e]) = "Critic"
                        /\ (responder /\ ~critic) => DisplayedRole(ex[e]) = "Responder"
                        /\ (~critic /\ ~responder) => DisplayedRole(ex[e]) = ""


\* the role whose marker occurs first in a content that holds both markers
EarliestRole(c) ==
    IF IndexOfFrom(c, CriticMarker, 1) < IndexOfFrom(c, ResponderMarker, 1)
    THEN "Critic" ELSE "Responder"

\* C17 (as claimed): a chain event whose content holds both 'Critic:' and
\* 'Responder:' is given the role whose marker occurs earliest in the string:
\* it is stored in that role's log only, and the panel displays it under that
\* role's label.
C17_RoleTieBreakAsClaimed ==
    \A e \in Exchanges :
        (Typed(e) /\ Streaming(e)) =>
            LET cs     == ChainLog(LinesSeen(e))
                chains == ChainLines(LinesSeen(e))
                Both(c) == Includes(c, CriticMarker) /\ Includes(c, ResponderMarker)
            IN /\ \A i \in 1..Len(cs) :
                     Both(cs[i]) =>
                        IF EarliestRole(cs[i]) = "Critic"
                        THEN /\ InLog(cs[i], ex[e].criticResponses)
                             /\ ~InLog(cs[i], ex[e].responderResponses)
                        ELSE /\ InLog(cs[i], ex[e].responderResponses)
                             /\ ~InLog(cs[i], ex[e].criticResponses)
               /\ (chains # <<>> /\ IsChain(chains[Len(chains)]) /\ Both(cs[Len(cs)]))
                     => DisplayedRole(ex[e]) = EarliestRole(cs[Len(cs)])


\* the final events among the lines
FinalLines(lines) == SelectSeq(lines, IsFinal)

\* C18: the final event of the typed sendMessage.  Once a final event has
\* been applied, the final answer is exactly the content of the latest final
\* event and it is what the final container renders, the final container is
\* displayed, and until the user clicks a reasoning toggle the chain panel is
\* hidden and every toggle is collapsed ('Show reasoning').
C18_FinalEvent ==
    \A e \in Exchanges :
        LET finals == FinalLines(LinesSeen(e)) IN
        (Typed(e) /\ finals # <<>>) =>
            LET content == Payload(finals[Len(finals)]).content IN
            /\ ex[e].finalAnswer = content
            /\ ex[e].finalHTML = Marked(content)
            /\ ex[e].finalDisplay = "block"
            /\ clicks = 0 =>
                  /\ ~ReasoningVisible(ex[e])
                  /\ \A i \in 1..Len(ex[e].toggles) :
                        ex[e].toggles[i] = [expanded |-> FALSE, text |-> ShowLabel]

\* C18 witness: the final event arrived in the chain phase: the final answer
\* is shown, the chain panel is hidden behind a collapsed toggle.
C18_Witness ==
    \E e \in Exchanges :
        /\ Typed(e) /\ Streaming(e) /\ clicks = 0
        /\ NonEmpty(LinesSeen(e)) = <<SubSeq(FrameCritic, 1, Len(FrameCritic) - 1),
                                      SubSeq(FrameFinal, 1, Len(FrameFinal) - 1)>>
        /\ ex[e].finalAnswer = "Done." /\ ex[e].finalDisplay = "block"
        /\ ex[e].chainDisplay = "none"
        /\ ex[e].toggles = <<[expanded |-> FALSE, text |-> ShowLabel]>>


\* C19: token concatenation.  In the token sendMessage, when every frame
\* arrives whole, the accumulated text is the concatenation of the response
\* fragments of the token events received so far, in arrival order, and it
\* is what the message renders; and no step shortens or reorders the text:
\* the text before a step is a prefix of the text after it.
C19_TokenConcatenation ==
    [][ \A e \in Exchanges :
           Token(e) =>
              /\ StartsWith(ex'[e].fullMessage, ex[e].fullMessage)
              /\ NoLineCut(e)' =>
                    /\ ex'[e].fullMessage = ExpectedTokens(LinesSeen(e))'
                    /\ (Streaming(e)' /\ ex'[e].fullMessage # "") =>
                          ex'[e].elContent = Marked(ex'[e].fullMessage) ]_vars

\* C19 witness: two different fragments arrived whole, one after the other.
C19_Witness ==
    \E e \in Exchanges :
        /\ Token(e) /\ Streaming(e) /\ NoLineCut(e)
        /\ Received(e) = FrameToken \o FrameToken2
        /\ ex[e].fullMessage = "Hello world"


\* the lines that carry the event-frame prefix
DataLines(lines) == SelectSeq(lines, IsData)

\* what an exchange holds and shows, the scrolling of the list aside
Shown(st) == [st EXCEPT !.scrolls = 0]

\* C20: lines that do not start with 'data: ' (blank lines, keep-alive
\* lines, the tail of a cut frame) are ignored.  While an exchange streams,
\* everything it holds and shows (chain state, final text, panel visibility,
\* diagnostics count) and its phase are what the 'data: ' lines alone
\* produce.
C20_NonDataLinesIgnored ==
    \A e \in Exchanges :
        Streaming(e) =>
            LET data  == DataLines(LinesSeen(e))
                alone == HandleLines(env.app, StartState(env.app, ex[e].message), data)
            IN /\ Shown(ex[e]) = Shown(alone)
               /\ PhaseRank(e) = Phase(env.app, alone, data)

\* C20 witness: a keep-alive line and blank lines came between two events,
\* both events were applied and nothing was logged.
C20_Witness ==
    \E e \in Exchanges :
        /\ Typed(e) /\ Streaming(e)
        /\ Received(e) = FrameCritic \o FrameKeepAlive \o FrameFinal
        /\ \E i \in 1..Len(LinesSeen(e)) : LinesSeen(e)[i] = ": keep-alive"
        /\ \E i \in 1..Len(LinesSeen(e)) : LinesSeen(e)[i] = ""
        /\ ex[e].criticResponses = <<"Critic: too vague">>
        /\ ex[e].finalAnswer = "Done."
        /\ ex[e].diagnostics = 0


\* a well-formed frame whose event kind the page does not recognize
Unrecognized(app, l) ==
    /\ IsParsable(l)
    /\ IF app = TypedApp THEN ~IsType(l, "chain") /\ ~IsType(l, "final")
                         ELSE ~IsToken(l)

\* the text without its frames of unrecognized kind
WithoutUnrecognized(app, text) ==
    Join(SelectSeq(ChunkLines(text), LAMBDA l : ~Unrecognized(app, l)))

\* C21: a well-formed frame of unrecognized kind is ignored.  When frames
\* arrive whole, a stream with such frames among its events leaves the
\* exchange with the same error count, chain state, final text, panel
\* visibility (everything it holds and shows) and the same phase as the
\* stream without them.
C21_UnrecognizedIgnored ==
    \A e \in Exchanges :
        (Streaming(e) /\ NoLineCut(e)) =>
            LET text  == WithoutUnrecognized(env.app, Received(e))
                clean == ProcessChunk(env.app, StartState(env.app, ex[e].message), text)
            IN /\ [ex[e] EXCEPT !.scrolls = 0] = [clean EXCEPT !.scrolls = 0]
               /\ PhaseRank(e) = Phase(env.app, clean, ChunkLines(text))

\* C21 witness: a frame of unknown type arrived after the final event of a
\* typed exchange, or a frame of empty response after a token.
C21_Witness ==
    \E e \in Exchanges :
        /\ Streaming(e) /\ NoLineCut(e) /\ ex[e].diagnostics = 0
        /\ \/ /\ Received(e) = FrameCritic \o FrameFinal \o FramePing
              /\ ex[e].finalDisplay = "block" /\ ex[e].chainDisplay = "none"
           \/ /\ Received(e) = FrameToken \o FrameEmpty
              /\ ex[e].fullMessage = "Hello"


\* the accumulators and contents an invocation starts with
Fresh(st) ==
    /\ st.criticResponses = <<>> /\ st.responderResponses = <<>>
    /\ st.finalAnswer = "" /\ st.fullMessage = ""
    /\ st.chainHTML = "" /\ st.finalHTML = "" /\ st.toggles = <<>>
    /\ st.elContent \in {"", TypingText}

\* C22: done and failed are terminal.  When the transport has signalled the
\* end of the stream the exchange is done; once an exchange is done or failed
\* no step reads a chunk for it or changes anything it holds or shows; and a
\* step that starts a later exchange starts it with empty accumulators and
\* leaves every earlier exchange as it was.
C22_Terminal ==
    [][ /\ \A e \in Exchanges :
             /\ net'[e].ended = "done" => Done(e)'
             /\ (Done(e) \/ Failed(e)) => (ex'[e] = ex[e] /\ net'[e] = net[e])
        /\ Len(ex') > Len(ex) =>
             /\ Fresh(ex'[Len(ex')])
             /\ net'[Len(ex')].pos = 0
             /\ \A e \in Exchanges : ex'[e] = ex[e] ]_vars

\* C22 witness: the first exchange is done with content, and the second,
\* started after it, has applied events of its own.
C22_Witness ==
    /\ Len(ex) = 2
    /\ Done(1) /\ net[1].ended = "done" /\ FinalAccumulated(ex[1]) # ""
    /\ Streaming(2) /\ FinalAccumulated(ex[2]) # ""


\* a parsed frame of type 'chain' whose payload has no content
IsChainWithoutContent(l) == IsType(l, "chain") /\ ~Has(Payload(l), "content")

\* the text without its chain frames that lack the content field
WithoutContentless(text) ==
    Join(SelectSeq(ChunkLines(text), LAMBDA l : ~IsChainWithoutContent(l)))

\* C23 (as claimed): a parsed chain frame that lacks the content field is
\* handled as a malformed event: when frames arrive whole, the chain content
\* the typed sendMessage displays and its critic and responder logs are what
\* the stream without those frames gives, and the stream continues while the
\* body has bytes left.
C23_ContentlessChainAsClaimed ==
    \A e \in Exchanges :
        (Typed(e) /\ Streaming(e) /\ NoLineCut(e)) =>
            LET text  == WithoutContentless(Received(e))
                clean == ProcessChunk(env.app, StartState(env.app, ex[e].message), text)
            IN /\ ex[e].chainHTML = clean.chainHTML
               /\ ex[e].criticResponses = clean.criticResponses
               /\ ex[e].responderResponses = clean.responderResponses


\* the read loop run on the chunks of `text` that end at `cuts`, one
\* invocation on its own
RECURSIVE Replay(_, _, _, _, _)
Replay(app, st, text, cuts, from) ==
    IF cuts = <<>> THEN st
    ELSE Replay(app, ProcessChunk(app, st, SubSeq(text, from + 1, Head(cuts))),
                text, Tail(cuts), Head(cuts))

\* what the invocation of e holds and shows had it run alone on the chunks
\* it was given and ended the way it has
Alone(e) ==
    LET r == Replay(env.app, StartState(env.app, ex[e].message), Text(e), net[e].cuts, 0) IN
    IF Done(e) THEN (IF Typed(e) THEN TypedFinally(r) ELSE TokenEnd(r))
    ELSE IF Failed(e) THEN (IF Typed(e) THEN TypedCatch(r) ELSE TokenCatch(r))
    ELSE r

\* C24: exchanges are isolated under interleaving.  With two sendMessage
\* invocations in flight and their chunk reads interleaved in any order, what
\* each exchange holds and shows (accumulators and every part of its
\* assistant message) is what its own chunks give when it runs alone.
C24_Isolation ==
    \A e \in Exchanges :
        (Streaming(e) \/ Done(e) \/ Failed(e)) => ex[e] = Alone(e)

\* C24 witness: two exchanges are streaming at once; the first has read a
\* part of its body, and the second, meanwhile, all of its own, which
\* differs from the first's and gave it content.
C24_Witness ==
    /\ Len(ex) = 2 /\ Streaming(1) /\ Streaming(2)
    /\ Text(1) # Text(2)
    /\ 0 < net[1].pos /\ net[1].pos < Len(Text(1))
    /\ net[2].pos = Len(Text(2))
    /\ FinalAccumulated(ex[2]) # ""
    /\ ex[1] # ex[2]


\* C25 (as claimed): within one exchange of the typed sendMessage, after any
\* sequence of events and of clicks on reasoning toggles, every toggle's
\* label and expanded flag agree with the visibility of the chain panel
\* ('Hide reasoning' and expanded exactly when the panel is shown), and the
\* message has at most one toggle.
C25_ToggleConsistentAsClaimed ==
    \A e \in Exchanges :
        Typed(e) =>
            /\ \A i \in 1..Len(ex[e].toggles) :
                  /\ ex[e].toggles[i].expanded <=> ReasoningVisible(ex[e])
                  /\ ex[e].toggles[i].text = HideLabel <=> ReasoningVisible(ex[e])
            /\ Len(ex[e].toggles) <= 1


\* the chat request of e has been issued and not yet answered
RequestIssued(e) == ex[e].pc = "fetch"

\* the user's message bubble of e is in the message list
HasUserBubble(e) == \E i \in 1..Len(chatMessages) : chatMessages[i] = UserBubble(e)

\* C26 (as claimed): whenever sendMessage has gone on to issue the chat
\* request, the user's message bubble created for that message is in the
\* message list, also when no chat was selected and a new chat was created
\* first, in both sendMessage implementations.
C26_UserBubbleKeptAsClaimed ==
    \A e \in Exchanges : RequestIssued(e) => HasUserBubble(e)


\* the assistant message of e is among the children of the message list
HasAssistantBubble(e) ==
    \E i \in 1..Len(chatMessages) : chatMessages[i] = AssistantBubble(e)

\* C27: if no chat is selected and creating a new chat fails, sendMessage
\* issues no chat request (it never gets to the request, nor to the read
\* loop), creates no assistant message and leaves no typing indicator and no
\* interval timer; it returns once createNewChat has returned null.
C27_NoChatNoRequest ==
    (env.chatId0 = NoChat /\ ~env.createOk) =>
        \A e \in Exchanges :
            /\ ex[e].pc \in {"createChat", "returned"}
            /\ Returned(e) => ex[e].outcome = "nochat"
            /\ ~HasAssistantBubble(e)
            /\ ~IndicatorShown(e) /\ ~ex[e].indicator /\ ~ex[e].interval
            /\ net[e].pos = 0 /\ net[e].lines = <<>>
            /\ currentChatId = NoChat

\* C27 witness: sendMessage has returned after a failed chat creation.
C27_Witness ==
    \E e \in Exchanges :
        /\ env.chatId0 = NoChat /\ ~env.createOk
        /\ Returned(e) /\ ex[e].outcome = "nochat" /\ ex[e].message = "hi"


\* C28: sendMessage called with an empty or whitespace-only input is a
\* no-op.  While the input field is empty or holds only whitespace no step
\* starts an exchange, issues a request or changes lastUserMessage; and the
\* call of sendMessage that returns on the empty message leaves the input
\* field, currentChatId, lastUserMessage, the message list and every
\* exchange as they were.
C28_EmptyInputNoOp ==
    [][ /\ Trim(messageInput) = "" =>
              /\ Len(ex') = Len(ex) /\ Len(net') = Len(net)
              /\ lastUserMessage' = lastUserMessage
              /\ lastCall' \in {lastCall, "empty"}
        /\ (lastCall' = "empty" /\ lastCall # "empty") =>
              /\ Trim(messageInput) = ""
              /\ UNCHANGED <<messageInput, currentChatId, lastUserMessage,
                             chatMessages, ex, net, auth>> ]_vars

\* C28 witness: after a message was sent, sendMessage was called on a
\* whitespace-only input and returned: the input still holds the whitespace
\* and lastUserMessage the message sent before.
C28_Witness ==
    /\ lastCall = "empty" /\ messageInput = " "
    /\ Len(ex) = 1 /\ lastUserMessage = "hi" /\ lastUserMessage = ex[1].message


\* the load of the l-th selection has completed and its messages were shown
LoadShown(l) == loads[l].pc = "shown"


\* C29: any API.request answered with status 401 logs the user out before
\* the error propagates.  On the typed page, for the requests of the chat
\* selections: a request answered 401 has rejected (its caller showed no
\* messages) and State.token is empty and the stored token removed; a request
\* answered with another failure status has rejected too; only a request
\* answered with success gave its caller a response; and as long as no
\* request was answered 401 the token and the stored token are as they were.
C29_UnauthorizedLogsOut ==
    env.app = TypedApp =>
        /\ \A l \in 1..Len(loads) :
              /\ loads[l].status = "http401" =>
                    /\ loads[l].pc = "failed"
                    /\ auth.token = "" /\ ~auth.stored
              /\ loads[l].status \in {"http500", "netfail"} => loads[l].pc = "failed"
              /\ LoadShown(l) <=> loads[l].status = "ok"
        /\ (\A l \in 1..Len(loads) : loads[l].status # "http401")
              => (auth.token = "token" /\ auth.stored)

\* C29 witness: on the typed page a request answered 500 has rejected with
\* the token kept, and a later one answered 401 has rejected with the user
\* logged out.
C29_Witness ==
    /\ env.app = TypedApp /\ Len(loads) = 2
    /\ loads[1].status = "http500" /\ loads[1].pc = "failed"
    /\ loads[2].status = "http401" /\ loads[2].pc = "failed"
    /\ auth.token = "" /\ ~auth.stored /\ auth.appDisplay = "none"

\* C30 (as claimed): chat selection is last-selection-wins.  When the user
\* has selected chat A and then chat B while A's messages were loading, then
\* once both loads have completed, in either order, currentChatId is B and
\* the displayed messages are B's; and in every state after a completed load
\* the displayed messages are those of currentChatId.
C30_LastSelectionWinsAsClaimed ==
    /\ \A l \in 1..Len(loads) :
          (l > 1 /\ LoadShown(l - 1) /\ LoadShown(l) /\ loads[l - 1].chatId # loads[l].chatId
                 /\ \A k \in 1..Len(loads) : loads[k].pc # "pending"
                 /\ l = Len(loads))
              => /\ currentChatId = loads[l].chatId
                 /\ chatMessages = History(loads[l].chatId)
    /\ (\E l \in 1..Len(loads) : LoadShown(l)) => chatMessages = History(currentChatId)

=============================================================================
